---- MODULE Spec2Model ----
(***************************************************************************)
(* Model of the blog application of "entirefile (1).py": the data-access   *)
(* layer (class Database: three SQLite tables, the managed image directory *)
(* and the CRUD methods that work on them) and the pages of class BlogApp  *)
(* that call it.                                                           *)
(***************************************************************************)
EXTENDS Integers, Sequences, FiniteSets, TLC

VARIABLES
    users,            \* rows of table users
    posts,            \* rows of table posts
    comments,         \* rows of table comments
    sqlite_sequence,  \* AUTOINCREMENT bookkeeping: table name -> largest rowid ever used
    now,              \* the value CURRENT_TIMESTAMP yields (whole seconds)
    dirExists,        \* the directory post_images exists
    imageFiles,       \* files in post_images: records [name, bytes]
    deleteReturned,   \* history: the delete_post calls that returned True
    last,             \* the most recent Database call, how it ended, its connection
    schema,           \* the tables of the database file and the columns of posts
    current_user,     \* BlogApp.current_user
    active_frame,     \* the frame raised last by BlogApp.show_frame
    home_posts,       \* the posts HomePage shows a "Read More" button for
    myposts,          \* what MyPostsPage shows
    detail,           \* PostDetailPage.post_id and whether it shows the comment form
    compose,          \* the entries of BlogPage and BlogPage.image_path
    event,            \* the most recent callback and how it ended
    tree              \* the Treeview of PostsTreeviewPage: items and selection

dbvars == <<users, posts, comments, sqlite_sequence, now, dirExists, imageFiles,
            deleteReturned, last>>

app == <<schema, current_user, active_frame, home_posts, myposts, detail, compose, event,
         tree>>

vars == <<users, posts, comments, sqlite_sequence, now, dirExists, imageFiles,
          deleteReturned, last, schema, current_user, active_frame, home_posts,
          myposts, detail, compose, event, tree>>

----------------------------------------------------------------------------
(* Bounds of the exploration. *)
MaxUsers == 2
MaxPosts == 2
MaxComments == 2
MaxClock == 1

(* Inputs. *)
None == "None"
Usernames == {"alice", "bob"}
Emails == {"a@x.com", "b@x.com"}
Passwords == {"secret1", "wrong"}
FullNames == {"Alice A", "Bob B"}
Accounts == { <<"alice", "a@x.com", "secret1", "Alice A">>,
              <<"bob", "b@x.com", "wrong", "Bob B">> }
UserIds == 1..MaxUsers
PostIds == 1..MaxPosts
PostTexts == { <<"Hi", "Body text", "Technology">>, <<"Yo", "More text", "Travel">> }
CommentTexts == {"Nice!"}

(* The files outside the managed directory that a caller can name. *)
SourceFiles == { [path |-> "/a/pic.png", bytes |-> "bytesA"],
                 [path |-> "/b/pic.png", bytes |-> "bytesB"] }
ImagePaths == {None, "/a/pic.png", "/b/pic.png", "/a/gone.png"}

(* What can go wrong underneath a call. *)
StoreFaults == {"none", "db"}
CreateFaults == {"none", "mkdir", "copy", "db"}

----------------------------------------------------------------------------
(* sqlite3.connect(db_name) with nothing else: the connection keeps        *)
(* SQLite's default, PRAGMA foreign_keys = OFF, so the FOREIGN KEY clauses *)
(* of the schema are parsed and not enforced.                              *)
ForeignKeys == FALSE

MaxOf(S) == IF S = {} THEN 0 ELSE CHOOSE m \in S : \A x \in S : x <= m

(* A plain INTEGER PRIMARY KEY: one more than the largest rowid now in the *)
(* table, so the id of a deleted last row is used again.                   *)
RowidPlusOne(seq, ids) == MaxOf(ids) + 1

(* INTEGER PRIMARY KEY AUTOINCREMENT: one more than the largest rowid the  *)
(* table has ever held.                                                    *)
AutoIncrement(seq, ids) == IF seq >= MaxOf(ids) THEN seq + 1 ELSE MaxOf(ids) + 1

(* hashlib.sha256(password.encode()).hexdigest(), first eight hex digits.  *)
hash_password(password) ==
    CASE password = "secret1" -> "5b11618c"
      [] password = "wrong"   -> "8810ad58"
      [] password = "secret2" -> "35224d0d"
      [] password = " secret2" -> "812ea610"
      [] OTHER                -> "e3b0c442"

(* os.path.exists and os.path.basename on the caller's paths. *)
PathExists(path) == \E f \in SourceFiles : f.path = path
BytesOf(path) == (CHOOSE f \in SourceFiles : f.path = path).bytes
Basename(path) ==
    CASE path = "/a/pic.png"  -> "pic.png"
      [] path = "/b/pic.png"  -> "pic.png"
      [] path = "/a/gone.png" -> "gone.png"
      [] OTHER                -> path
StoredPath(filename) == "post_images/" \o filename

(* A callback of a page: the message box it showed, if any, and whether it *)
(* ended in an exception.                                                  *)
Event(handler, notice, raised) ==
    [handler |-> handler, notice |-> notice, raised |-> raised]

(* The schema create_tables leaves behind. *)
Tables == {"users", "posts", "comments"}
FullSchema == [tables |-> Tables, image_path |-> TRUE]

(* BlogApp.current_user is None or {"user_id": ..., "username": ...}; here *)
(* the empty tuple or <<user_id, username>>.                               *)
NoUser == <<>>
LoggedIn(user_id, username) == <<user_id, username>>

(* PostDetailPage.post_id is None until a post is opened; ids start at 1.  *)
NoPost == 0

(* MyPostsPage.posts_frame: one label, or a Delete button for each post.   *)
MyPostsLabel(text) == [label |-> text, buttons |-> {}]

(* The Treeview of PostsTreeviewPage: its top-level items in order, each  *)
(* with its text, whether it is open and its child rows, and the selected  *)
(* item (empty, <<i>> or <<i, j>>).  A child row shows a title; post_id is *)
(* the post it was built from, which the widget does not keep.  With no    *)
(* post the tree holds the one item "No posts available".                  *)
TreeItem(text, open, children) == [text |-> text, open |-> open, children |-> children]
TreeOf(items) == [items |-> items, selection |-> <<>>]
EmptyTree == TreeOf(<<TreeItem("No posts available", FALSE, <<>>)>>)

(* The entries of BlogPage when nothing has been typed or chosen.  text_by *)
(* and image_by are history: the value of current_user when the text was   *)
(* typed and when the image was chosen.                                    *)
EmptyText == <<"", "", "">>
EmptyCompose ==
    [text |-> EmptyText, image_path |-> None, text_by |-> <<>>, image_by |-> <<>>]

(* What has become of the connection a method opened when it returns.     *)
(* Every method calls conn.close() as the last statement before its        *)
(* successful return (login_user before it looks at the row it fetched)    *)
(* and nowhere else: an exception after get_connection, caught by the      *)
(* method or not, leaves the connection open.  create_post makes the       *)
(* directory and the copy before it connects.                              *)
Connection(op, fault, outcome) ==
    CASE op = "init"                                     -> "none"
      [] outcome = "ok"                                  -> "closed"
      [] op = "login_user" /\ fault = "none"             -> "closed"
      [] op = "create_post" /\ fault \in {"mkdir", "copy"} -> "none"
      [] OTHER                                           -> "open"

Call(op, args, fault, outcome, value) ==
    [op |-> op, args |-> args, fault |-> fault, outcome |-> outcome, value |-> value,
     connection |-> Connection(op, fault, outcome)]

----------------------------------------------------------------------------
Init ==
    /\ users = {}
    /\ posts = {}
    /\ comments = {}
    /\ sqlite_sequence = [users |-> 0, posts |-> 0, comments |-> 0]
    /\ now = 0
    /\ dirExists = FALSE
    /\ imageFiles = {}
    /\ deleteReturned = {}
    /\ last = Call("init", <<>>, "none", "ok", None)
    /\ schema = FullSchema
    /\ current_user = NoUser
    /\ active_frame = "LoginPage"
    /\ home_posts = {}
    /\ myposts = MyPostsLabel("Please log in to view your posts!")
    /\ detail = [post_id |-> NoPost, form |-> FALSE]
    /\ compose = EmptyCompose
    /\ event = Event("init", None, FALSE)
    /\ tree = EmptyTree

(* Wall-clock time passes between two calls. *)
Tick ==
    /\ now < MaxClock
    /\ now' = now + 1
    /\ UNCHANGED <<users, posts, comments, sqlite_sequence, dirExists, imageFiles,
                   deleteReturned, last>>

(* A users table whose username column is not UNIQUE. *)
EmailUniqueOnly(username, email) ==
    \E u \in users : u.email = email

(* A users table whose email column is not UNIQUE. *)
UsernameUniqueOnly(username, email) ==
    \E u \in users : u.username = username

(* UNIQUE(username), UNIQUE(email) of table users. *)
UsersUniqueViolated(username, email) ==
    \E u \in users : u.username = username \/ u.email = email

register_user(username, email, password, full_name, fault) ==
    /\ sqlite_sequence.users < MaxUsers \/ fault = "db"
                                        \/ UsersUniqueViolated(username, email)
    /\ LET args == <<username, email, password, full_name>>
           hashed_password == hash_password(password)
           user_id == AutoIncrement(sqlite_sequence.users, {u.user_id : u \in users})
       IN  IF fault = "db"
           THEN /\ last' = Call("register_user", args, fault, "fail", "Error")
                /\ UNCHANGED <<users, sqlite_sequence>>
           ELSE IF UsersUniqueViolated(username, email)
           THEN /\ last' = Call("register_user", args, fault, "fail",
                                "Username or email already exists!")
                /\ UNCHANGED <<users, sqlite_sequence>>
           ELSE /\ users' = users \cup
                       { [user_id |-> user_id, username |-> username, email |-> email,
                          password |-> hashed_password, full_name |-> full_name] }
                /\ sqlite_sequence' = [sqlite_sequence EXCEPT !.users = user_id]
                /\ last' = Call("register_user", args, fault, "ok", "Registration successful!")
    /\ UNCHANGED <<posts, comments, now, dirExists, imageFiles, deleteReturned>>

(* A login query that leaves the password out of the WHERE clause. *)
LoginRowsAnyPassword(username, password) ==
    { u \in users : u.username = username }

(* SELECT user_id, full_name FROM users WHERE username = ? AND password = ? *)
LoginRows(username, password) ==
    { u \in users : u.username = username /\ u.password = hash_password(password) }

login_user(username, password, fault) ==
    /\ LET args == <<username, password>>
           rows == LoginRows(username, password)
       IN  IF fault = "db"
           THEN last' = Call("login_user", args, fault, "fail", "Error")
           ELSE IF rows # {}
           THEN \E u \in rows :
                    last' = Call("login_user", args, fault, "ok", <<u.user_id, u.full_name>>)
           ELSE last' = Call("login_user", args, fault, "fail", None)
    /\ UNCHANGED <<users, posts, comments, sqlite_sequence, now, dirExists, imageFiles,
                   deleteReturned>>

----------------------------------------------------------------------------
(* A copy that writes nothing. *)
CopyNothing(files, filename, bytes) == files

(* A copy that leaves a file of that name alone when there is one. *)
CopyKeepExisting(files, filename, bytes) ==
    IF \E f \in files : f.name = filename
    THEN files
    ELSE files \cup { [name |-> filename, bytes |-> bytes] }

(* shutil.copy2(image_path, stored_image_path): the file named filename in *)
(* post_images is created or overwritten with the bytes of the source.     *)
CopyInto(files, filename, bytes) ==
    { f \in files : f.name # filename } \cup { [name |-> filename, bytes |-> bytes] }

(* INSERT INTO posts: refused only when foreign keys are enforced and the  *)
(* owner is missing.                                                       *)
PostInsertRefused(user_id) ==
    ForeignKeys /\ ~ \E u \in users : u.user_id = user_id

create_post(user_id, title, content, category, image_path, fault) ==
    /\ sqlite_sequence.posts < MaxPosts
    /\ LET args == <<user_id, title, content, category, image_path>>
           copies == image_path # None /\ PathExists(image_path)
           filename == Basename(image_path)
           stored_image_path == IF copies THEN StoredPath(filename) ELSE None
           post_id == AutoIncrement(sqlite_sequence.posts, {p.post_id : p \in posts})
       IN  IF fault = "mkdir" /\ ~dirExists
           THEN \* img_dir.mkdir raises: nothing has happened yet
                /\ last' = Call("create_post", args, fault, "fail", "IoError")
                /\ UNCHANGED <<posts, sqlite_sequence, dirExists, imageFiles>>
           ELSE IF fault = "copy" /\ copies
           THEN \* shutil.copy2 raises; the directory has been made
                /\ dirExists' = TRUE
                /\ last' = Call("create_post", args, fault, "fail", "IoError")
                /\ UNCHANGED <<posts, sqlite_sequence, imageFiles>>
           ELSE IF fault = "db" \/ PostInsertRefused(user_id)
           THEN \* connect, INSERT or commit raises; the copy has been made
                /\ dirExists' = TRUE
                /\ imageFiles' = IF copies
                                 THEN CopyInto(imageFiles, filename, BytesOf(image_path))
                                 ELSE imageFiles
                /\ last' = Call("create_post", args, fault, "fail", "StoreError")
                /\ UNCHANGED <<posts, sqlite_sequence>>
           ELSE /\ dirExists' = TRUE
                /\ imageFiles' = IF copies
                                 THEN CopyInto(imageFiles, filename, BytesOf(image_path))
                                 ELSE imageFiles
                /\ posts' = posts \cup
                       { [post_id |-> post_id, user_id |-> user_id, title |-> title,
                          content |-> content, category |-> category,
                          image_path |-> stored_image_path,
                          created_at |-> now, updated_at |-> now] }
                /\ sqlite_sequence' = [sqlite_sequence EXCEPT !.posts = post_id]
                /\ last' = Call("create_post", args, fault, "ok", post_id)
    /\ UNCHANGED <<users, comments, now, deleteReturned>>

(* An UPDATE that has lost its WHERE clause. *)
UpdateWithoutWhere(post_id, title, content, category) ==
    { [p EXCEPT !.title = title, !.content = content, !.category = category,
                !.updated_at = now] : p \in posts }

(* UPDATE posts SET ... WHERE post_id = ?: zero or one row changes. *)
UpdatedPosts(post_id, title, content, category) ==
    { IF p.post_id = post_id
      THEN [p EXCEPT !.title = title, !.content = content, !.category = category,
                     !.updated_at = now]
      ELSE p : p \in posts }

update_post(post_id, title, content, category, fault) ==
    /\ LET args == <<post_id, title, content, category>>
       IN  IF fault = "db"
           THEN /\ last' = Call("update_post", args, fault, "fail", "StoreError")
                /\ UNCHANGED posts
           ELSE /\ posts' = UpdatedPosts(post_id, title, content, category)
                /\ last' = Call("update_post", args, fault, "ok", "Post updated successfully!")
    /\ UNCHANGED <<users, comments, sqlite_sequence, now, dirExists, imageFiles,
                   deleteReturned>>

(* DELETE FROM posts WHERE post_id = ?; ON DELETE CASCADE removes the      *)
(* post's comments only on a connection that enforces foreign keys.        *)
CommentsAfterDelete(post_id) ==
    IF ForeignKeys THEN { c \in comments : c.post_id # post_id } ELSE comments

(* A DELETE that takes every post of the owner of the post. *)
DeleteOwnerPosts(post_id) ==
    { p \in posts : \A q \in posts : q.post_id = post_id => p.user_id # q.user_id }

(* DELETE FROM posts WHERE post_id = ? *)
PostsAfterDelete(post_id) == { p \in posts : p.post_id # post_id }

delete_post(post_id, fault) ==
    /\ LET args == <<post_id>>
       IN  IF fault = "db"
           THEN /\ last' = Call("delete_post", args, fault, "fail", "StoreError")
                /\ UNCHANGED <<posts, comments, deleteReturned>>
           ELSE /\ posts' = PostsAfterDelete(post_id)
                /\ comments' = CommentsAfterDelete(post_id)
                /\ deleteReturned' = deleteReturned \cup
                       { [post_id |-> post_id,
                          issued |-> post_id <= sqlite_sequence.posts] }
                /\ last' = Call("delete_post", args, fault, "ok", "Post deleted successfully!")
    /\ UNCHANGED <<users, sqlite_sequence, now, dirExists, imageFiles>>

(* INSERT INTO comments: refused only when foreign keys are enforced and   *)
(* the post or the author is missing.                                      *)
CommentInsertRefused(post_id, user_id) ==
    ForeignKeys /\ ~ ( (\E p \in posts : p.post_id = post_id)
                       /\ (\E u \in users : u.user_id = user_id) )

add_comment(post_id, user_id, comment_text, fault) ==
    /\ sqlite_sequence.comments < MaxComments
    /\ LET args == <<post_id, user_id, comment_text>>
           comment_id == AutoIncrement(sqlite_sequence.comments,
                                       {c.comment_id : c \in comments})
       IN  IF fault = "db" \/ CommentInsertRefused(post_id, user_id)
           THEN /\ last' = Call("add_comment", args, fault, "fail", "StoreError")
                /\ UNCHANGED <<comments, sqlite_sequence>>
           ELSE /\ comments' = comments \cup
                       { [comment_id |-> comment_id, post_id |-> post_id,
                          user_id |-> user_id, comment_text |-> comment_text,
                          created_at |-> now] }
                /\ sqlite_sequence' = [sqlite_sequence EXCEPT !.comments = comment_id]
                /\ last' = Call("add_comment", args, fault, "ok", "Comment added!")
    /\ UNCHANGED <<users, posts, now, dirExists, imageFiles, deleteReturned>>

----------------------------------------------------------------------------
(* The sequences ORDER BY created_at DESC may return for a set of rows:    *)
(* every arrangement with no row before a strictly newer one.  SQL leaves  *)
(* the order of rows with equal keys open.                                 *)
OrderByCreatedDesc(rows) ==
    { s \in [1..Cardinality(rows) -> rows] :
        /\ \A i, j \in 1..Cardinality(rows) : i # j => s[i] # s[j]
        /\ \A i, j \in 1..Cardinality(rows) : i < j => s[i].created_at >= s[j].created_at }

(* posts JOIN users ON posts.user_id = users.user_id *)
PostsJoinUsers == { p \in posts : \E u \in users : u.user_id = p.user_id }

(* A get_user_posts without its WHERE clause. *)
get_user_posts_unfiltered(user_id) == posts

get_all_posts_rows == PostsJoinUsers
get_user_posts_rows(user_id) == { p \in posts : p.user_id = user_id }
get_post_details_rows(post_id) == { p \in PostsJoinUsers : p.post_id = post_id }
get_post_comments_rows(post_id) ==
    { c \in comments : c.post_id = post_id /\ \E u \in users : u.user_id = c.user_id }

Ids(s) == [i \in 1..Len(s) |-> s[i].post_id]
CommentIds(s) == [i \in 1..Len(s) |-> s[i].comment_id]

(* The four read methods have no try/except: a failure underneath leaves   *)
(* the method as an exception.                                             *)
Query(op, args, fault, values) ==
    /\ IF fault = "db"
       THEN last' = Call(op, args, fault, "raised", "Error")
       ELSE \E v \in values : last' = Call(op, args, fault, "ok", v)
    /\ UNCHANGED <<users, posts, comments, sqlite_sequence, now, dirExists, imageFiles,
                   deleteReturned>>

get_all_posts(fault) ==
    Query("get_all_posts", <<>>, fault,
          { Ids(s) : s \in OrderByCreatedDesc(get_all_posts_rows) })

get_user_posts(user_id, fault) ==
    Query("get_user_posts", <<user_id>>, fault,
          { Ids(s) : s \in OrderByCreatedDesc(get_user_posts_rows(user_id)) })

get_post_details(post_id, fault) ==
    Query("get_post_details", <<post_id>>, fault,
          IF get_post_details_rows(post_id) = {} THEN {None}
          ELSE { p.post_id : p \in get_post_details_rows(post_id) })

get_post_comments(post_id, fault) ==
    Query("get_post_comments", <<post_id>>, fault,
          { CommentIds(s) : s \in OrderByCreatedDesc(get_post_comments_rows(post_id)) })

----------------------------------------------------------------------------
(* Start-up on a database file that exists already.  A posts table written *)
(* before the image_path column was introduced has rows without that       *)
(* column, shown here as NoColumn in its place.                            *)
NoColumn == "<no column>"

(* A posts table dropped and created anew instead of altered. *)
RecreateTable(rows) == {}

(* ALTER TABLE posts ADD COLUMN image_path TEXT: every row gets NULL. *)
AddColumnImagePath(rows) == { [p EXCEPT !.image_path = None] : p \in rows }

(* The three CREATE TABLE IF NOT EXISTS statements: a missing table is     *)
(* created empty, posts with its image_path column; a present one is left. *)
CreateIfNotExists(sch) ==
    [tables |-> sch.tables \cup Tables,
     image_path |-> IF "posts" \in sch.tables THEN sch.image_path ELSE TRUE]

(* create_tables followed by migrate_add_image_path, on the stored tables. *)
StartUp(db) ==
    LET created == CreateIfNotExists(db.schema)
    IN  IF created.image_path
        THEN [db EXCEPT !.schema = created]
        ELSE [db EXCEPT !.schema = [created EXCEPT !.image_path = TRUE],
                        !.posts = AddColumnImagePath(db.posts)]

Stored == [schema |-> schema, users |-> users, posts |-> posts, comments |-> comments]

create_tables ==
    /\ schema' = StartUp(Stored).schema
    /\ users' = StartUp(Stored).users
    /\ posts' = StartUp(Stored).posts
    /\ comments' = StartUp(Stored).comments
    /\ last' = Call("create_tables", <<>>, "none", "ok", None)
    /\ UNCHANGED <<sqlite_sequence, now, dirExists, imageFiles, deleteReturned>>

(* The database files start-up may find: any of the three tables present,  *)
(* posts with or without image_path, rows written by earlier runs.         *)
StoredUsers ==
    { [user_id |-> 1, username |-> "alice", email |-> "a@x.com",
       password |-> hash_password("secret1"), full_name |-> "Alice A"],
      [user_id |-> 2, username |-> "bob", email |-> "b@x.com",
       password |-> hash_password("wrong"), full_name |-> "Bob B"] }

StoredPosts(images) ==
    { [post_id |-> i, user_id |-> u, title |-> "Hi", content |-> "Body text",
       category |-> "Technology", image_path |-> img, created_at |-> 0,
       updated_at |-> 0] : i \in PostIds, u \in {1}, img \in images }

StoredComments ==
    { [comment_id |-> 1, post_id |-> 1, user_id |-> 2, comment_text |-> "Nice!",
       created_at |-> 0] }

InitStored ==
    /\ schema \in [tables : SUBSET Tables, image_path : BOOLEAN]
    /\ schema.image_path => "posts" \in schema.tables
    /\ users \in SUBSET StoredUsers
    /\ "users" \notin schema.tables => users = {}
    /\ posts \in SUBSET StoredPosts(IF schema.image_path
                                     THEN {None, StoredPath("pic.png")}
                                     ELSE {NoColumn})
    /\ \A p, q \in posts : p.post_id = q.post_id => p = q
    /\ "posts" \notin schema.tables => posts = {}
    /\ comments \in SUBSET StoredComments
    /\ "comments" \notin schema.tables => comments = {}
    /\ sqlite_sequence = [users |-> MaxOf({u.user_id : u \in users}),
                          posts |-> MaxOf({q.post_id : q \in posts}),
                          comments |-> MaxOf({c.comment_id : c \in comments})]
    /\ now = 0
    /\ dirExists \in BOOLEAN
    /\ imageFiles = {}
    /\ deleteReturned = {}
    /\ last = Call("init", <<>>, "none", "ok", None)
    /\ current_user = NoUser
    /\ active_frame = "LoginPage"
    /\ home_posts = {}
    /\ myposts = MyPostsLabel("Please log in to view your posts!")
    /\ detail = [post_id |-> NoPost, form |-> FALSE]
    /\ compose = EmptyCompose
    /\ event = Event("init", None, FALSE)
    /\ tree = EmptyTree

NextStartUp ==
    \/ create_tables /\ UNCHANGED <<current_user, active_frame, home_posts, myposts,
                                    detail, compose, event, tree>>

SpecStartUp == InitStored /\ [][NextStartUp]_vars

----------------------------------------------------------------------------
(* The pages.  Each callback is one step: the Database calls it makes, the *)
(* widgets it rebuilds and the frame it raises.  `last` holds the call the *)
(* callback makes on its own account; the queries of a refresh that        *)
(* follows show in the widgets and, when they raise, in event.             *)

(* str.strip() on the texts a user types here. *)
Strip(text) ==
    CASE text = " bob " -> "bob"
      [] text = " secret2" -> "secret2"
      [] text = "   "   -> ""
      [] OTHER          -> text

Pages == {"LoginPage", "SignupPage", "HomePage", "BlogPage", "MyPostsPage",
          "PostDetailPage", "AboutPage", "ContactPage", "GalleryPage",
          "PostsTreeviewPage"}

(* The commands of the menu bar that raise a frame. *)
MenuPages == {"HomePage", "BlogPage", "GalleryPage", "PostsTreeviewPage", "MyPostsPage",
              "AboutPage", "ContactPage"}

(* The buttons of each page that raise another frame; those of            *)
(* MyPostsPage are with its other buttons below.                           *)
PageButtons ==
    { <<"LoginPage", "SignupPage">>, <<"SignupPage", "LoginPage">>,
      <<"HomePage", "MyPostsPage">>, <<"HomePage", "BlogPage">>,
      <<"HomePage", "AboutPage">>, <<"HomePage", "ContactPage">>,
      <<"BlogPage", "HomePage">>, <<"PostDetailPage", "HomePage">>,
      <<"AboutPage", "HomePage">>, <<"ContactPage", "HomePage">>,
      <<"GalleryPage", "HomePage">>, <<"PostsTreeviewPage", "HomePage">> }

(* A show_frame that sends a visitor who is not logged in to LoginPage. *)
show_frame_guarded(cont, fault) ==
    IF current_user = NoUser
    THEN active_frame' = "LoginPage" /\ UNCHANGED home_posts
    ELSE active_frame' = cont /\ UNCHANGED home_posts

(* BlogApp.show_frame on the store as the callback leaves it: HomePage is  *)
(* refreshed first, HomePage.load_posts destroys its widgets and calls     *)
(* get_all_posts, and when that raises tkraise is not reached.             *)
show_frame(cont, fault) ==
    IF cont = "HomePage"
    THEN IF fault = "db"
         THEN home_posts' = {} /\ UNCHANGED active_frame
         ELSE home_posts' = { p.post_id : p \in get_all_posts_rows' }
              /\ active_frame' = cont
    ELSE active_frame' = cont /\ UNCHANGED home_posts

(* Whether that show_frame ends in an exception. *)
ShowFrameRaises(cont, fault) == cont = "HomePage" /\ fault = "db"

(* A menu command, or a button of the active page, that raises a frame. *)
Navigate(handler, cont, fault) ==
    /\ UNCHANGED <<dbvars, schema, tree, current_user, myposts, detail, compose>>
    /\ show_frame(cont, fault)
    /\ event' = Event(handler, None, ShowFrameRaises(cont, fault))

menu_command(cont, fault) == Navigate("menu", cont, fault)

page_button(cont, fault) ==
    /\ <<active_frame, cont>> \in PageButtons
    /\ Navigate(active_frame, cont, fault)

(* HomePage: the Refresh button. *)
HomePage_load_posts(fault) ==
    /\ active_frame = "HomePage"
    /\ IF fault = "db"
       THEN home_posts' = {}
       ELSE home_posts' = { p.post_id : p \in get_all_posts_rows }
    /\ event' = Event("HomePage.load_posts", None, fault = "db")
    /\ UNCHANGED <<dbvars, schema, tree, current_user, active_frame, myposts, detail, compose>>

(* A logout that raises LoginPage and leaves current_user as it is. *)
logout_keeps_user ==
    /\ UNCHANGED <<dbvars, schema, tree, myposts, detail, compose, current_user>>
    /\ show_frame("LoginPage", "none")

(* BlogApp.logout, reached from the Logout button of HomePage. *)
logout ==
    /\ UNCHANGED <<dbvars, schema, tree, myposts, detail, compose>>
    /\ current_user' = NoUser
    /\ show_frame("LoginPage", "none")

HomePage_logout ==
    /\ active_frame = "HomePage"
    /\ logout
    /\ event' = Event("HomePage.logout", None, FALSE)

(* The id of whoever signed up last. *)
LatestUserId == sqlite_sequence.users

(* self.controller.current_user["user_id"] *)
SessionUserId == current_user[1]

(* What a visitor types into LoginPage and SignupPage. *)
LoginEntries ==
    { <<"alice", "secret1">>, <<" bob ", "secret2">>, <<"alice", "secret2">>,
      <<"   ", "secret1">> }

SignupEntries ==
    { <<"Alice A", "a@x.com", "alice", "secret1", "secret1">>,
      <<"Bob B", "b@x.com", " bob ", "secret2", "secret2">>,
      <<"Bob B", "b@x.com", "bob", "wrong", "wrong">>,
      <<"Bob B", "b@x.com", "bob", "secret2", "secret1">>,
      <<"Bob B", "   ", "bob", "secret2", "secret2">> }

ValidSignupEntries ==
    { e \in SignupEntries : e[4] = e[5] /\ Strip(e[2]) # "" /\ e[4] # "wrong" }

MinPasswordLen == 6

(* LoginPage.login: the Login button. *)
LoginPage_login(username_entry, password_entry, fault, refresh) ==
    /\ active_frame = "LoginPage"
    /\ LET username == Strip(username_entry)
           password == Strip(password_entry)
       IN  IF username = "" \/ password = ""
           THEN /\ event' = Event("LoginPage.login", "Please fill all fields!", FALSE)
                /\ UNCHANGED <<dbvars, current_user, active_frame, home_posts>>
           ELSE /\ login_user(username, password, fault)
                /\ IF last'.outcome = "ok"
                   THEN /\ current_user' = LoggedIn(last'.value[1], last'.value[2])
                        /\ show_frame("HomePage", refresh)
                        /\ event' = Event("LoginPage.login", "Welcome",
                                          ShowFrameRaises("HomePage", refresh))
                   ELSE /\ event' = Event("LoginPage.login",
                                          "Invalid username or password!", FALSE)
                        /\ UNCHANGED <<current_user, active_frame, home_posts>>
    /\ UNCHANGED <<schema, tree, myposts, detail, compose>>

(* SignupPage.signup: the Sign Up button. *)
SignupPage_signup(entries, fault) ==
    /\ active_frame = "SignupPage"
    /\ LET fullname == Strip(entries[1])
           email    == Strip(entries[2])
           username == Strip(entries[3])
           password == entries[4]
           confirm  == entries[5]
           refused(text) ==
               /\ event' = Event("SignupPage.signup", text, FALSE)
               /\ UNCHANGED <<dbvars, active_frame>>
       IN  IF "" \in {fullname, email, username, password, confirm}
           THEN refused("Please fill all fields!")
           ELSE IF password # confirm
           THEN refused("Passwords do not match!")
           ELSE IF Len(password) < MinPasswordLen
           THEN refused("Password must be at least 6 characters!")
           ELSE /\ register_user(username, email, password, fullname, fault)
                /\ event' = Event("SignupPage.signup", last'.value, FALSE)
                /\ IF last'.outcome = "ok"
                   THEN active_frame' = "LoginPage"
                   ELSE UNCHANGED active_frame
    /\ UNCHANGED <<schema, tree, current_user, home_posts, myposts, detail, compose>>

(* What a visitor types into BlogPage and which file the dialog returns    *)
(* ("" when the dialog is cancelled).                                      *)
ComposeTexts == { <<"Hi", "Body text", "Technology">>, <<"Hi", "   ", "Technology">> }
DialogPaths == {"", "/a/pic.png"}

BlogPage_type(text) ==
    /\ active_frame = "BlogPage"
    /\ compose' = [compose EXCEPT !.text = text, !.text_by = current_user]
    /\ event' = Event("BlogPage.entries", None, FALSE)
    /\ UNCHANGED <<dbvars, schema, tree, current_user, active_frame, home_posts, myposts, detail>>

(* BlogPage.upload_image: the Upload Image button. *)
BlogPage_upload_image(file_path) ==
    /\ active_frame = "BlogPage"
    /\ compose' = IF file_path # ""
                  THEN [compose EXCEPT !.image_path = file_path,
                                       !.image_by = current_user]
                  ELSE compose
    /\ event' = Event("BlogPage.upload_image", None, FALSE)
    /\ UNCHANGED <<dbvars, schema, tree, current_user, active_frame, home_posts, myposts, detail>>

(* BlogPage.create_post: the Post button. *)
BlogPage_create_post(fault, refresh) ==
    /\ active_frame = "BlogPage"
    /\ LET title    == Strip(compose.text[1])
           content  == Strip(compose.text[2])
           category == Strip(compose.text[3])
           refused(text) ==
               /\ event' = Event("BlogPage.create_post", text, FALSE)
               /\ UNCHANGED <<dbvars, active_frame, home_posts, compose>>
       IN  IF current_user = NoUser
           THEN refused("Please log in first!")
           ELSE IF title = "" \/ category = "" \/ content = ""
           THEN refused("Please fill all fields!")
           ELSE /\ create_post(SessionUserId, title, content, category,
                               compose.image_path, fault)
                /\ IF last'.outcome = "ok"
                   THEN /\ compose' = EmptyCompose
                        /\ show_frame("HomePage", refresh)
                        /\ event' = Event("BlogPage.create_post",
                                          "Post created successfully!",
                                          ShowFrameRaises("HomePage", refresh))
                   ELSE /\ event' = Event("BlogPage.create_post",
                                          "Failed to create post", FALSE)
                        /\ UNCHANGED <<active_frame, home_posts, compose>>
    /\ UNCHANGED <<schema, tree, current_user, myposts, detail>>

(* PostDetailPage.load_post: the widgets are destroyed, the post is read,  *)
(* the comment form is built when somebody is logged in, the comments are  *)
(* read.  Either query may raise.                                          *)
LoadFaults == {"none", "get_post_details", "get_post_comments"}

CommentForm(found, fault) ==
    fault # "get_post_details" /\ found /\ current_user # NoUser

(* HomePage.view_post: the Read More button of a post shown on HomePage.   *)
HomePage_view_post(post_id, fault) ==
    /\ active_frame = "HomePage"
    /\ post_id \in home_posts
    /\ detail' = [post_id |-> post_id,
                  form |-> CommentForm(get_post_details_rows(post_id) # {}, fault)]
    /\ IF fault = "none"
       THEN active_frame' = "PostDetailPage"
       ELSE UNCHANGED active_frame
    /\ event' = Event("HomePage.view_post", None, fault # "none")
    /\ UNCHANGED <<dbvars, schema, tree, current_user, home_posts, myposts, compose>>

CommentEntries == {"Nice!", "   "}

(* PostDetailPage.add_comment: the Post Comment button of the form. *)
PostDetailPage_add_comment(entry, fault, reload) ==
    /\ active_frame = "PostDetailPage"
    /\ detail.form
    /\ LET comment_text == Strip(entry)
           refused(text) ==
               /\ event' = Event("PostDetailPage.add_comment", text, FALSE)
               /\ UNCHANGED <<dbvars, detail>>
       IN  IF current_user = NoUser
           THEN refused("Please log in to comment!")
           ELSE IF comment_text = ""
           THEN refused("Comment cannot be empty!")
           ELSE /\ add_comment(detail.post_id, SessionUserId, comment_text, fault)
                /\ IF last'.outcome = "ok"
                   THEN /\ detail' = [detail EXCEPT !.form =
                               CommentForm(\E p \in PostsJoinUsers' :
                                               p.post_id = detail.post_id, reload)]
                        /\ event' = Event("PostDetailPage.add_comment", "Comment added!",
                                          reload # "none")
                   ELSE /\ event' = Event("PostDetailPage.add_comment", "Error", FALSE)
                        /\ UNCHANGED detail
    /\ UNCHANGED <<schema, tree, current_user, active_frame, home_posts, myposts, compose>>

(* MyPostsPage.load_posts, run when the page is constructed and after a    *)
(* deletion: get_user_posts returns rows of six columns and the loop       *)
(* unpacks each row into five names, which raises ValueError at the first  *)
(* row, before its widget and its Delete button are made.                  *)
GetUserPostsColumns == 6
LoadPostsNames == 5

MyPostsLoaded(rows, fault) ==
    IF current_user = NoUser
    THEN MyPostsLabel("Please log in to view your posts!")
    ELSE IF fault = "db"
    THEN MyPostsLabel("")
    ELSE IF rows = {}
    THEN MyPostsLabel("You haven't created any posts yet!")
    ELSE IF GetUserPostsColumns # LoadPostsNames
    THEN MyPostsLabel("")
    ELSE [label |-> "", buttons |-> { p.post_id : p \in rows }]

MyPostsRaises(rows, fault) ==
    /\ current_user # NoUser
    /\ fault = "db" \/ (rows # {} /\ GetUserPostsColumns # LoadPostsNames)

(* The buttons MyPostsPage shows: Home and New Post, and Edit and Delete   *)
(* for each post it has a widget for.                                      *)
MyPostsButtons ==
    [kind : {"show_frame"}, cont : {"HomePage", "BlogPage"}, post_id : {NoPost}]
    \cup [kind : {"edit_post", "delete_post"}, cont : {""}, post_id : myposts.buttons]

(* MyPostsPage.delete_post: the Delete button of a post, then the answer   *)
(* to "Are you sure you want to delete this post?".                        *)
MyPostsPage_delete_post(post_id, confirm, fault, reload) ==
    IF ~confirm
    THEN /\ event' = Event("MyPostsPage.delete_post", None, FALSE)
         /\ UNCHANGED <<dbvars, schema, tree, current_user, active_frame, home_posts,
                        myposts, detail, compose>>
    ELSE /\ delete_post(post_id, fault)
         /\ IF last'.outcome = "ok"
            THEN LET rows == { p \in posts' : p.user_id = SessionUserId }
                 IN  /\ myposts' = MyPostsLoaded(rows, reload)
                     /\ event' = Event("MyPostsPage.delete_post", last'.value,
                                       MyPostsRaises(rows, reload))
            ELSE /\ event' = Event("MyPostsPage.delete_post", last'.value, FALSE)
                 /\ UNCHANGED myposts
         /\ UNCHANGED <<schema, tree, current_user, active_frame, home_posts, detail, compose>>

MyPostsPage_edit_post(post_id) ==
    /\ event' = Event("MyPostsPage.edit_post", "Edit functionality coming soon!", FALSE)
    /\ UNCHANGED <<dbvars, schema, tree, current_user, active_frame, home_posts, myposts,
                   detail, compose>>

(* One press of a button of MyPostsPage. *)
MyPostsPage_button(button, confirm, fault, refresh) ==
    /\ active_frame = "MyPostsPage"
    /\ button \in MyPostsButtons
    /\ CASE button.kind = "show_frame"  -> Navigate("MyPostsPage", button.cont, refresh)
         [] button.kind = "edit_post"   -> MyPostsPage_edit_post(button.post_id)
         [] button.kind = "delete_post" ->
                MyPostsPage_delete_post(button.post_id, confirm, fault, refresh)

(* PostsTreeviewPage.  sorted(categories.items()) on the categories used   *)
(* here.                                                                   *)
CategoriesSorted == <<"Technology", "Travel">>

(* The rows load_treeview puts under a category: the posts of that         *)
(* category in the order get_all_posts returned them.                      *)
TreeRows(rows, category) ==
    LET InCategory(p) == p.category = category
        sel == SelectSeq(rows, InCategory)
    IN  [k \in 1..Len(sel) |-> [text |-> sel[k].title, post_id |-> sel[k].post_id]]

TreeItems(rows) ==
    LET Used(c) == \E k \in 1..Len(rows) : rows[k].category = c
        cats == SelectSeq(CategoriesSorted, Used)
    IN  IF Len(rows) = 0
        THEN EmptyTree.items
        ELSE [k \in 1..Len(cats) |-> TreeItem(cats[k], FALSE, TreeRows(rows, cats[k]))]

(* PostsTreeviewPage.load_treeview: the Refresh button.  The items are     *)
(* deleted before get_all_posts is called.                                 *)
PostsTreeviewPage_load_treeview(fault) ==
    /\ active_frame = "PostsTreeviewPage"
    /\ IF fault = "db"
       THEN tree' = TreeOf(<<>>)
       ELSE \E rows \in OrderByCreatedDesc(get_all_posts_rows) :
                tree' = TreeOf(TreeItems(rows))
    /\ event' = Event("PostsTreeviewPage.load_treeview", None, fault = "db")
    /\ UNCHANGED <<dbvars, schema, current_user, active_frame, home_posts, myposts,
                   detail, compose>>

(* A double click on a top-level item: the Treeview selects it and opens   *)
(* or closes it; on_treeview_double_click finds no parent and returns.     *)
PostsTreeviewPage_double_click_item(i) ==
    /\ active_frame = "PostsTreeviewPage"
    /\ i \in DOMAIN tree.items
    /\ tree' = [items |-> [tree.items EXCEPT ![i].open = ~tree.items[i].open],
                selection |-> <<i>>]
    /\ event' = Event("PostsTreeviewPage.on_treeview_double_click", None, FALSE)
    /\ UNCHANGED <<dbvars, schema, current_user, active_frame, home_posts, myposts,
                   detail, compose>>

(* The position of the first post of rows whose title is text, 0 if none:  *)
(* the loop of on_treeview_double_click with its break.                    *)
FirstWithTitle(rows, text) ==
    IF \E k \in 1..Len(rows) : rows[k].title = text
    THEN CHOOSE k \in 1..Len(rows) :
             /\ rows[k].title = text
             /\ \A m \in 1..(k - 1) : rows[m].title # text
    ELSE 0

(* PostsTreeviewPage.on_treeview_double_click on row j of item i, which is *)
(* visible when item i is open.                                            *)
PostsTreeviewPage_on_treeview_double_click(i, j, fault, load) ==
    /\ active_frame = "PostsTreeviewPage"
    /\ i \in DOMAIN tree.items
    /\ tree.items[i].open
    /\ j \in DOMAIN tree.items[i].children
    /\ tree' = [tree EXCEPT !.selection = <<i, j>>]
    /\ IF fault = "db"
       THEN /\ event' = Event("PostsTreeviewPage.on_treeview_double_click", None, TRUE)
            /\ UNCHANGED <<detail, active_frame>>
       ELSE \E rows \in OrderByCreatedDesc(get_all_posts_rows) :
                LET k == FirstWithTitle(rows, tree.items[i].children[j].text)
                IN  IF k = 0
                    THEN /\ event' = Event("PostsTreeviewPage.on_treeview_double_click",
                                           None, FALSE)
                         /\ UNCHANGED <<detail, active_frame>>
                    ELSE /\ detail' = [post_id |-> rows[k].post_id,
                                       form |-> CommentForm(
                                           get_post_details_rows(rows[k].post_id) # {},
                                           load)]
                         /\ IF load = "none"
                            THEN active_frame' = "PostDetailPage"
                            ELSE UNCHANGED active_frame
                         /\ event' = Event("PostsTreeviewPage.on_treeview_double_click",
                                           None, load # "none")
    /\ UNCHANGED <<dbvars, schema, current_user, home_posts, myposts, compose>>

(* _expand_tree and _collapse_tree from a top-level item: the item is      *)
(* opened or closed and so are its children, which are rows and have none  *)
(* of their own.                                                           *)
expand_tree(items, i) == [items EXCEPT ![i].open = TRUE]
collapse_tree(items, i) == [items EXCEPT ![i].open = FALSE]

(* PostsTreeviewPage.expand_all and collapse_all: they start from          *)
(* self.tree.get_children()[0], the first top-level item.                  *)
PostsTreeviewPage_expand_all ==
    /\ active_frame = "PostsTreeviewPage"
    /\ tree' = IF Len(tree.items) > 0
               THEN [tree EXCEPT !.items = expand_tree(tree.items, 1)]
               ELSE tree
    /\ event' = Event("PostsTreeviewPage.expand_all", None, FALSE)
    /\ UNCHANGED <<dbvars, schema, current_user, active_frame, home_posts, myposts,
                   detail, compose>>

PostsTreeviewPage_collapse_all ==
    /\ active_frame = "PostsTreeviewPage"
    /\ tree' = IF Len(tree.items) > 0
               THEN [tree EXCEPT !.items = collapse_tree(tree.items, 1)]
               ELSE tree
    /\ event' = Event("PostsTreeviewPage.collapse_all", None, FALSE)
    /\ UNCHANGED <<dbvars, schema, current_user, active_frame, home_posts, myposts,
                   detail, compose>>

----------------------------------------------------------------------------
(* The users table alone: registration and login over every combination of *)
(* username, email, password and full name.                                *)
NextUsers ==
    \/ \E un \in Usernames, em \in Emails, pw \in Passwords, fn \in FullNames,
          f \in StoreFaults : register_user(un, em, pw, fn, f) /\ UNCHANGED app
    \/ \E un \in Usernames, pw \in Passwords, f \in StoreFaults : login_user(un, pw, f)
              /\ UNCHANGED app

SpecUsers == Init /\ [][NextUsers]_vars

(* Posts and their comments: creation by existing and missing users,       *)
(* comments, deletion.                                                     *)
NextCascade ==
    \/ \E a \in Accounts, f \in StoreFaults : register_user(a[1], a[2], a[3], a[4], f)
              /\ UNCHANGED app
    \/ \E u \in UserIds, f \in StoreFaults :
          create_post(u, "Hi", "Body text", "Technology", None, f) /\ UNCHANGED app
    \/ \E p \in PostIds, t \in PostTexts, f \in StoreFaults :
          update_post(p, t[1], t[2], t[3], f) /\ UNCHANGED app
    \/ \E p \in PostIds, f \in StoreFaults : delete_post(p, f) /\ UNCHANGED app
    \/ \E p \in PostIds, u \in UserIds, f \in StoreFaults : add_comment(p, u, "Nice!", f)
              /\ UNCHANGED app
    \/ \E p \in PostIds : get_post_comments(p, "none") /\ UNCHANGED app

SpecCascade == Init /\ [][NextCascade]_vars

(* The listings over time. *)
NextListing ==
    \/ Tick /\ UNCHANGED app
    \/ \E a \in Accounts, f \in StoreFaults : register_user(a[1], a[2], a[3], a[4], f)
              /\ UNCHANGED app
    \/ \E u \in UserIds, f \in StoreFaults :
          create_post(u, "Hi", "Body text", "Technology", None, f) /\ UNCHANGED app
    \/ \E p \in PostIds, f \in StoreFaults : delete_post(p, f) /\ UNCHANGED app
    \/ get_all_posts("none") /\ UNCHANGED app
    \/ \E u \in UserIds : get_user_posts(u, "none") /\ UNCHANGED app

SpecListing == Init /\ [][NextListing]_vars

(* Post ids over creations and deletions. *)
NextDelete ==
    \/ \E a \in Accounts, f \in StoreFaults : register_user(a[1], a[2], a[3], a[4], f)
              /\ UNCHANGED app
    \/ \E u \in UserIds, f \in StoreFaults :
          create_post(u, "Hi", "Body text", "Technology", None, f) /\ UNCHANGED app
    \/ \E p \in PostIds, f \in StoreFaults : delete_post(p, f) /\ UNCHANGED app
    \/ \E p \in PostIds : get_post_details(p, "none") /\ UNCHANGED app

SpecDelete == Init /\ [][NextDelete]_vars

(* The comments of a post over time: comments of the same second and of    *)
(* later seconds, by stored and by missing authors.                        *)
NextComments ==
    \/ Tick /\ UNCHANGED app
    \/ \E f \in StoreFaults :
          register_user("alice", "a@x.com", "secret1", "Alice A", f) /\ UNCHANGED app
    \/ \E f \in StoreFaults :
          create_post(1, "Hi", "Body text", "Technology", None, f) /\ UNCHANGED app
    \/ \E p \in PostIds, u \in UserIds, t \in CommentTexts, f \in StoreFaults :
          add_comment(p, u, t, f) /\ UNCHANGED app
    \/ \E p \in PostIds : get_post_comments(p, "none") /\ UNCHANGED app

SpecComments == Init /\ [][NextComments]_vars

(* Sessions: sign-up, login, logout and every way of raising a frame, with *)
(* and without a failure of the store underneath.  No post is written.     *)
NextSession ==
    \/ \E cont \in MenuPages, f \in StoreFaults : menu_command(cont, f)
    \/ \E cont \in Pages, f \in StoreFaults : page_button(cont, f)
    \/ \E f \in StoreFaults : HomePage_load_posts(f)
    \/ HomePage_logout
    \/ \E e \in LoginEntries, f \in StoreFaults, r \in StoreFaults :
          LoginPage_login(e[1], e[2], f, r)
    \/ \E e \in SignupEntries, f \in StoreFaults : SignupPage_signup(e, f)
    \/ \E b \in MyPostsButtons : MyPostsPage_button(b, TRUE, "none", "none")

SpecSession == Init /\ [][NextSession]_vars

(* Writing through the pages: two visitors sign up, log in and out, write  *)
(* posts on BlogPage and comments on the first post on PostDetailPage.     *)
NextApp ==
    \/ \E cont \in {"HomePage", "BlogPage"} : menu_command(cont, "none")
    \/ HomePage_logout
    \/ \E e \in {<<"alice", "secret1">>, <<" bob ", "secret2">>} :
          LoginPage_login(e[1], e[2], "none", "none")
    \/ \E cont \in Pages : page_button(cont, "none")
    \/ \E e \in ValidSignupEntries : SignupPage_signup(e, "none")
    \/ \E t \in ComposeTexts : BlogPage_type(t)
    \/ \E f \in StoreFaults, r \in StoreFaults : BlogPage_create_post(f, r)
    \/ \E f \in LoadFaults : HomePage_view_post(1, f)
    \/ \E e \in CommentEntries, f \in StoreFaults, r \in LoadFaults :
          PostDetailPage_add_comment(e, f, r)

SpecApp == Init /\ [][NextApp]_vars

(* One visitor who signs up, logs in, writes posts and keeps opening       *)
(* MyPostsPage and pressing whatever Delete button it shows.               *)
NextOwner ==
    \/ \E cont \in Pages : page_button(cont, "none")
    \/ \E cont \in {"HomePage", "BlogPage"} : menu_command(cont, "none")
    \/ menu_command("MyPostsPage", "none")
    \/ SignupPage_signup(<<"Alice A", "a@x.com", "alice", "secret1", "secret1">>, "none")
    \/ LoginPage_login("alice", "secret1", "none", "none")
    \/ BlogPage_type(<<"Hi", "Body text", "Technology">>)
    \/ \E path \in DialogPaths : BlogPage_upload_image(path)
    \/ BlogPage_create_post("none", "none")
    \/ \E b \in MyPostsButtons : MyPostsPage_button(b, TRUE, "none", "none")

PressDelete(post_id) ==
    MyPostsPage_button([kind |-> "delete_post", cont |-> "", post_id |-> post_id],
                       TRUE, "none", "none")

SpecOwner ==
    /\ Init
    /\ [][NextOwner]_vars
    /\ WF_vars(menu_command("MyPostsPage", "none"))
    /\ \A p \in PostIds : SF_vars(PressDelete(p))

(* Posts edited over time: posts with and without an image, a comment,    *)
(* updates of stored and of missing posts.                                 *)
NextUpdate ==
    \/ Tick /\ UNCHANGED app
    \/ \E f \in StoreFaults :
          register_user("alice", "a@x.com", "secret1", "Alice A", f) /\ UNCHANGED app
    \/ \E img \in {None, "/a/pic.png"}, f \in StoreFaults :
          create_post(1, "Hi", "Body text", "Technology", img, f) /\ UNCHANGED app
    \/ \E f \in StoreFaults : add_comment(1, 1, "Nice!", f) /\ UNCHANGED app
    \/ \E p \in PostIds, f \in StoreFaults :
          update_post(p, "Yo", "More text", "Travel", f) /\ UNCHANGED app

SpecUpdate == Init /\ [][NextUpdate]_vars

(* Deletion among the posts of two owners, with and without images.       *)
NextDeleteFrame ==
    \/ \E a \in Accounts : register_user(a[1], a[2], a[3], a[4], "none") /\ UNCHANGED app
    \/ \E u \in UserIds, img \in {None, "/a/pic.png"}, f \in StoreFaults :
          create_post(u, "Hi", "Body text", "Technology", img, f) /\ UNCHANGED app
    \/ \E p \in PostIds, f \in StoreFaults : delete_post(p, f) /\ UNCHANGED app

SpecDeleteFrame == Init /\ [][NextDeleteFrame]_vars

(* Two owners whose pictures have the same file name and other bytes: the *)
(* first owner posts /b/pic.png, the second /a/pic.png.                    *)
NextOverwrite ==
    \/ \E a \in Accounts, f \in StoreFaults : register_user(a[1], a[2], a[3], a[4], f)
              /\ UNCHANGED app
    \/ \E f \in CreateFaults :
          create_post(1, "Hi", "Body text", "Technology", "/b/pic.png", f)
              /\ UNCHANGED app
    \/ \E f \in CreateFaults :
          create_post(2, "Yo", "More text", "Travel", "/a/pic.png", f)
              /\ UNCHANGED app
    \/ \E p \in PostIds : get_post_details(p, "none") /\ UNCHANGED app

SpecOverwrite == Init /\ [][NextOverwrite]_vars

(* Sign-up followed by login with what was typed at sign-up: one password *)
(* without and one with a leading blank.                                   *)
RoundTripEntries ==
    { <<"Alice A", "a@x.com", "alice", "secret1", "secret1">>,
      <<"Bob B", "b@x.com", " bob ", " secret2", " secret2">> }

NextRoundTrip ==
    \/ \E cont \in Pages : page_button(cont, "none")
    \/ \E e \in RoundTripEntries, f \in StoreFaults : SignupPage_signup(e, f)
    \/ \E e \in RoundTripEntries, f \in StoreFaults :
          LoginPage_login(e[3], e[4], f, "none")
    \/ HomePage_logout

SpecRoundTrip == Init /\ [][NextRoundTrip]_vars

(* The category tree: one visitor signs up, logs in, writes posts with one *)
(* title in either category, and uses every control of PostsTreeviewPage.  *)
TreeTexts == { <<"Hi", "Body text", "Technology">>, <<"Hi", "More text", "Travel">> }
TreePositions == 1..MaxPosts

NextTree ==
    \/ \E cont \in Pages : page_button(cont, "none")
    \/ \E cont \in {"BlogPage", "PostsTreeviewPage"} : menu_command(cont, "none")
    \/ SignupPage_signup(<<"Alice A", "a@x.com", "alice", "secret1", "secret1">>, "none")
    \/ LoginPage_login("alice", "secret1", "none", "none")
    \/ \E t \in TreeTexts : BlogPage_type(t)
    \/ BlogPage_create_post("none", "none")
    \/ \E f \in StoreFaults : PostsTreeviewPage_load_treeview(f)
    \/ \E i \in TreePositions : PostsTreeviewPage_double_click_item(i)
    \/ \E i \in TreePositions, j \in TreePositions, f \in StoreFaults, r \in LoadFaults :
          PostsTreeviewPage_on_treeview_double_click(i, j, f, r)
    \/ PostsTreeviewPage_expand_all
    \/ PostsTreeviewPage_collapse_all

SpecTree == Init /\ [][NextTree]_vars

(* Two visitors who use BlogPage one after the other: text and image of   *)
(* the form, logout, login, Post.                                          *)
NextLeak ==
    \/ \E cont \in Pages : page_button(cont, "none")
    \/ \E cont \in {"HomePage", "BlogPage"} : menu_command(cont, "none")
    \/ HomePage_logout
    \/ \E e \in ValidSignupEntries : SignupPage_signup(e, "none")
    \/ \E e \in {<<"alice", "secret1">>, <<" bob ", "secret2">>} :
          LoginPage_login(e[1], e[2], "none", "none")
    \/ BlogPage_type(<<"Hi", "Body text", "Technology">>)
    \/ \E path \in DialogPaths : BlogPage_upload_image(path)
    \/ \E f \in StoreFaults : BlogPage_create_post(f, "none")

SpecLeak == Init /\ [][NextLeak]_vars

(* Every method, with and without a failure underneath. *)
NextFaults ==
    \/ \E f \in StoreFaults : register_user("alice", "a@x.com", "secret1", "Alice A", f)
              /\ UNCHANGED app
    \/ \E pw \in Passwords, f \in StoreFaults : login_user("alice", pw, f) /\ UNCHANGED app
    \/ \E f \in StoreFaults : create_post(1, "Hi", "Body text", "Technology", None, f)
              /\ UNCHANGED app
    \/ \E f \in StoreFaults : get_all_posts(f) /\ UNCHANGED app
    \/ \E f \in StoreFaults : get_user_posts(1, f) /\ UNCHANGED app
    \/ \E f \in StoreFaults : get_post_details(1, f) /\ UNCHANGED app
    \/ \E f \in StoreFaults : update_post(1, "Yo", "More text", "Travel", f) /\ UNCHANGED app
    \/ \E f \in StoreFaults : delete_post(1, f) /\ UNCHANGED app
    \/ \E f \in StoreFaults : add_comment(1, 1, "Nice!", f) /\ UNCHANGED app
    \/ \E f \in StoreFaults : get_post_comments(1, f) /\ UNCHANGED app

SpecFaults == Init /\ [][NextFaults]_vars

(* Posts with images, and the failures of create_post. *)
NextImages ==
    \/ \E a \in Accounts, f \in StoreFaults : register_user(a[1], a[2], a[3], a[4], f)
              /\ UNCHANGED app
    \/ \E u \in UserIds, img \in ImagePaths, f \in CreateFaults :
          create_post(u, "Hi", "Body text", "Technology", img, f) /\ UNCHANGED app
    \/ \E p \in PostIds, f \in StoreFaults : delete_post(p, f) /\ UNCHANGED app
    \/ \E p \in PostIds : get_post_details(p, "none") /\ UNCHANGED app

SpecImages == Init /\ [][NextImages]_vars

----------------------------------------------------------------------------
(* Claims. *)

ExistingUserIds == { u.user_id : u \in users }
ExistingPostIds == { p.post_id : p \in posts }
Range(s) == { s[i] : i \in 1..Len(s) }

(* C1: after delete_post(p) has returned success, the comments table holds *)
(* no row with post_id = p and get_post_comments(p) has no row to return.  *)
C1_DeleteRemovesComments ==
    (last.op = "delete_post" /\ last.outcome = "ok")
        => /\ \A c \in comments : c.post_id # last.args[1]
           /\ get_post_comments_rows(last.args[1]) = {}

(* C2: in every reachable state every post's user_id is the id of a stored *)
(* user, every comment's post_id the id of a stored post and every         *)
(* comment's user_id the id of a stored user.                              *)
C2_ReferentialIntegrity ==
    /\ \A p \in posts : p.user_id \in ExistingUserIds
    /\ \A c \in comments : c.post_id \in ExistingPostIds
    /\ \A c \in comments : c.user_id \in ExistingUserIds

(* C3: a register_user call whose username, or whose email, is that of a   *)
(* stored user returns failure and leaves the users table and its id       *)
(* counter unchanged.                                                      *)
C3_DuplicateRejected ==
    [][ ( /\ last'.op = "register_user"
          /\ \E u \in users : u.username = last'.args[1] \/ u.email = last'.args[2] )
        => ( /\ last'.outcome = "fail"
             /\ last'.fault = "none" => last'.value = "Username or email already exists!"
             /\ users' = users
             /\ sqlite_sequence' = sqlite_sequence ) ]_vars

(* C3 witness: a registration with a stored username and another email has *)
(* been refused.                                                           *)
C3_Witness ==
    /\ last.op = "register_user"
    /\ last.outcome = "fail"
    /\ last.value = "Username or email already exists!"
    /\ \E u \in users : u.username = last.args[1] /\ u.email # last.args[2]
    /\ ~ \E u \in users : u.email = last.args[2]

(* C4: when the store itself does not fail, login_user returns success     *)
(* exactly when a stored user has the given username and a stored hash     *)
(* equal to the hash of the given password; on success the value is that   *)
(* user's id and full name, otherwise it is None.                          *)
C4_AuthenticateIffHashMatches ==
    (last.op = "login_user" /\ last.fault = "none")
        => LET matching == { u \in users : /\ u.username = last.args[1]
                                           /\ u.password = hash_password(last.args[2]) }
           IN  /\ (last.outcome = "ok") <=> (matching # {})
               /\ last.outcome = "ok" =>
                      \E u \in matching : last.value = <<u.user_id, u.full_name>>
               /\ last.outcome # "ok" => (last.outcome = "fail" /\ last.value = None)

(* C4 witness: a login with a stored username and another password than    *)
(* the stored one has been refused while a second user is stored.          *)
C4_Witness ==
    /\ last.op = "login_user"
    /\ last.fault = "none"
    /\ last.outcome = "fail"
    /\ \E u \in users : u.username = last.args[1]
    /\ Cardinality(users) = 2

(* C5: get_all_posts returns every stored post exactly once, no post       *)
(* before a newer one.                                                     *)
C5_ListAllPostsComplete ==
    (last.op = "get_all_posts" /\ last.outcome = "ok")
        => /\ Range(last.value) = ExistingPostIds
           /\ Len(last.value) = Cardinality(posts)
           /\ \A i, j \in 1..Len(last.value) : i < j =>
                  \A p, q \in posts :
                      (p.post_id = last.value[i] /\ q.post_id = last.value[j])
                          => p.created_at >= q.created_at

(* C6: right after a successful create_post by a stored user, every result *)
(* get_all_posts can return starts with the post just created.             *)
C6_NewPostFirst ==
    (last.op = "create_post" /\ last.outcome = "ok" /\ last.args[1] \in ExistingUserIds)
        => \A s \in OrderByCreatedDesc(get_all_posts_rows) :
               Len(s) >= 1 /\ s[1].post_id = last.value

(* C7: get_user_posts(u) returns exactly the stored posts whose user_id is *)
(* u, each once.                                                           *)
C7_UserPostsExact ==
    (last.op = "get_user_posts" /\ last.outcome = "ok")
        => /\ Range(last.value) = { p.post_id : p \in { q \in posts : q.user_id = last.args[1] } }
           /\ \A i, j \in 1..Len(last.value) : i # j => last.value[i] # last.value[j]

(* C7 witness: get_user_posts has returned a post of its user while a post *)
(* of another user is stored.                                              *)
C7_Witness ==
    /\ last.op = "get_user_posts"
    /\ last.outcome = "ok"
    /\ Len(last.value) >= 1
    /\ \E p \in posts : p.user_id # last.args[1]

(* C8 as stated: once delete_post(p) has returned success, get_post_details *)
(* finds no post p in any later state.                                     *)
C8_DeletedStaysGone ==
    \A d \in deleteReturned : get_post_details_rows(d.post_id) = {}

(* C8 amended: once delete_post(p) has returned success for an id p that   *)
(* create_post had handed out before the call, no later state stores a     *)
(* post p and get_post_details(p) finds none.                              *)
C8_IssuedDeletedStaysGone ==
    \A d \in deleteReturned :
        d.issued => /\ d.post_id \notin ExistingPostIds
                    /\ get_post_details_rows(d.post_id) = {}

(* C8 witness: a post was deleted and a post created after it is stored    *)
(* with its owner.                                                         *)
C8_Witness ==
    \E d \in deleteReturned :
        /\ d.issued
        /\ \E p \in PostsJoinUsers : p.post_id > d.post_id

(* C9: no call ends as an exception. *)
C9_NoExceptionEscapes == last.outcome # "raised"

(* C10: a create_post call that returns failure leaves the posts table and *)
(* the files of post_images as they were.                                  *)
C10_FailedCreateNoEffect ==
    [][ (last'.op = "create_post" /\ last'.outcome = "fail")
        => (posts' = posts /\ imageFiles' = imageFiles) ]_vars

(* C11 as stated: a create_post call given an image path succeeds only     *)
(* with a post that carries a stored-image reference to a file of          *)
(* post_images.                                                            *)
C11_ImagePathGivenMeansStored ==
    (last.op = "create_post" /\ last.outcome = "ok" /\ last.args[5] # None)
        => \E p \in posts :
               /\ p.post_id = last.value
               /\ p.image_path # None
               /\ \E f \in imageFiles : StoredPath(f.name) = p.image_path

(* C11 amended: a create_post call given the path of an existing file      *)
(* succeeds only with a post that carries a stored-image reference to a    *)
(* file of post_images holding the source's bytes; given a path that names *)
(* no file it succeeds with a post without image reference.                *)
C11_ExistingImageMeansStored ==
    (last.op = "create_post" /\ last.outcome = "ok" /\ last.args[5] # None)
        => \E p \in posts :
               /\ p.post_id = last.value
               /\ IF \E sf \in SourceFiles : sf.path = last.args[5]
                  THEN /\ p.image_path # None
                       /\ \E f \in imageFiles, sf \in SourceFiles :
                              /\ sf.path = last.args[5]
                              /\ StoredPath(f.name) = p.image_path
                              /\ f.bytes = sf.bytes
                  ELSE p.image_path = None

(* C11 witness: a post with an image has been created while post_images    *)
(* already held a file of that name with other bytes.                      *)
C11_Witness ==
    /\ last.op = "create_post"
    /\ last.outcome = "ok"
    /\ last.args[5] = "/b/pic.png"
    /\ \E p \in posts : p.post_id = 1 /\ p.image_path # None
    /\ last.value = 2

(* C12: right after a successful create_post given an existing source      *)
(* file, get_post_details of the returned id yields a row whose image_path *)
(* names a file of post_images with the bytes of the source.               *)
C12_ImageRoundTrip ==
    (last.op = "create_post" /\ last.outcome = "ok"
        /\ \E sf \in SourceFiles : sf.path = last.args[5])
        => \E row \in get_post_details_rows(last.value), f \in imageFiles,
              sf \in SourceFiles :
               /\ sf.path = last.args[5]
               /\ StoredPath(f.name) = row.image_path
               /\ f.bytes = sf.bytes

(* C19: no two stored users share a username and no two share an email.    *)
C19_UsersUnique ==
    \A u, v \in users :
        (u.username = v.username \/ u.email = v.email) => u = v

(* C19 witness: two users are stored and a third registration, with the    *)
(* email of one of them under the other's name, has just been refused.     *)
C19_Witness ==
    /\ Cardinality(users) = 2
    /\ last.op = "register_user"
    /\ last.fault = "none"
    /\ last.outcome = "fail"
    /\ \E u, v \in users :
           u # v /\ u.username = last.args[1] /\ v.email = last.args[2]

(* C20: right after a successful add_comment(p, u, text) by a stored user, *)
(* every order get_post_comments(p) may return starts with the new         *)
(* comment, also when an older comment of p has the same created_at.       *)
C20_NewCommentFirst ==
    (last.op = "add_comment" /\ last.outcome = "ok" /\ last.args[2] \in ExistingUserIds)
        => \A s \in OrderByCreatedDesc(get_post_comments_rows(last.args[1])) :
               Len(s) >= 1 /\ s[1].comment_id = sqlite_sequence.comments

(* C18: start-up keeps every stored user and comment, keeps every stored   *)
(* post in all columns it had, leaves posts with the image_path column,    *)
(* and a second start-up changes nothing the first one left.               *)
C18_StartUpKeepsRows ==
    LET once == StartUp(Stored)
    IN  /\ once.users = users
        /\ once.comments = comments
        /\ once.schema.image_path
        /\ Tables \subseteq once.schema.tables
        /\ \A p \in posts : \E q \in once.posts :
               /\ \A col \in (DOMAIN p) \ {"image_path"} : q[col] = p[col]
               /\ q.image_path = IF schema.image_path THEN p.image_path ELSE None
        /\ Cardinality(once.posts) = Cardinality(posts)
        /\ StartUp(once) = once

(* C18 witness: start-up has run on a file whose posts table had two rows  *)
(* and no image_path column, with users and comments stored.               *)
C18_Witness ==
    /\ last.op = "create_tables"
    /\ schema.image_path
    /\ Cardinality(posts) = 2
    /\ \A p \in posts : p.image_path = None
    /\ users # {} /\ comments # {}

(* C13: every post and every comment a step adds was added while somebody  *)
(* was logged in and carries the user_id of current_user; a step taken     *)
(* with nobody logged in adds no post and no comment.                      *)
C13_WritesCarrySessionUser ==
    [][ /\ \A p \in posts' \ posts :
               current_user # NoUser /\ p.user_id = current_user[1]
        /\ \A c \in comments' \ comments :
               current_user # NoUser /\ c.user_id = current_user[1]
        /\ current_user = NoUser => (posts' = posts /\ comments' = comments) ]_vars

(* C13 witness: the second user has written a post and a comment, has      *)
(* logged out, and the Post button of BlogPage has then been refused.      *)
C13_Witness ==
    /\ current_user = NoUser
    /\ event.handler = "BlogPage.create_post"
    /\ event.notice = "Please log in first!"
    /\ \E p \in posts : p.user_id = 2
    /\ \E c \in comments : c.user_id = 2

(* C14: whenever somebody is logged in and owns a stored post p, p is      *)
(* eventually gone, given that MyPostsPage keeps being opened and a Delete *)
(* button that keeps being offered is eventually pressed and confirmed.    *)
C14_OwnerCanDelete ==
    \A p \in PostIds :
        (current_user # NoUser
            /\ \E q \in posts : q.post_id = p /\ q.user_id = current_user[1])
        ~> (~ \E q \in posts : q.post_id = p)

(* C15: a login_user that succeeds on LoginPage leaves current_user with   *)
(* the id and full name of the user of that name and HomePage raised.      *)
C15_LoginRaisesHome ==
    [][ ( /\ active_frame = "LoginPage"
          /\ event'.handler = "LoginPage.login"
          /\ last'.op = "login_user"
          /\ last'.outcome = "ok" )
        => ( /\ \E u \in users : /\ u.username = last'.args[1]
                                  /\ current_user' = <<u.user_id, u.full_name>>
             /\ active_frame' = "HomePage" ) ]_vars

(* C16: the Logout button leaves current_user empty and LoginPage raised   *)
(* and changes no table and no file.                                       *)
C16_LogoutClearsSession ==
    [][ (active_frame = "HomePage" /\ event'.handler = "HomePage.logout")
        => ( /\ current_user' = NoUser
             /\ active_frame' = "LoginPage"
             /\ UNCHANGED <<users, posts, comments, sqlite_sequence, dirExists,
                            imageFiles, schema>> ) ]_vars

(* C16 witness: the second user, with a post and a comment stored, has     *)
(* logged out.                                                             *)
C16_Witness ==
    /\ event.handler = "HomePage.logout"
    /\ active_frame = "LoginPage"
    /\ Cardinality(users) = 2
    /\ posts # {} /\ comments # {}

(* C17: while nobody is logged in, each of the seven menu commands can     *)
(* raise its frame; this holds in the initial state in particular.         *)
C17_NavigationUnconditional ==
    current_user = NoUser
        => \A cont \in MenuPages :
               ENABLED (menu_command(cont, "none") /\ active_frame' = cont)

(* C17 witness: with no user stored, so that nobody can have logged in,    *)
(* the Posts (Treeview) frame is raised.                                   *)
C17_Witness ==
    /\ users = {}
    /\ current_user = NoUser
    /\ active_frame = "PostsTreeviewPage"

(* C21: a step of update_post(p, title, content, category) leaves users,   *)
(* comments, the id counters and the image files as they were and keeps    *)
(* every post other than p; p, when stored, keeps its user_id, created_at  *)
(* and image_path and, on success, gets the given title, content and       *)
(* category; when p is not stored the posts table is unchanged.            *)
C21_UpdateFrame ==
    [][ last'.op = "update_post"
        => ( /\ UNCHANGED <<users, comments, sqlite_sequence, dirExists, imageFiles>>
             /\ \A q \in posts : q.post_id # last'.args[1] => q \in posts'
             /\ { q.post_id : q \in posts' } = { q.post_id : q \in posts }
             /\ Cardinality(posts') = Cardinality(posts)
             /\ \A q \in posts : q.post_id = last'.args[1] =>
                    \E r \in posts' :
                        /\ r.post_id = q.post_id
                        /\ r.user_id = q.user_id
                        /\ r.created_at = q.created_at
                        /\ r.image_path = q.image_path
                        /\ IF last'.outcome = "ok"
                           THEN /\ r.title = last'.args[2]
                                /\ r.content = last'.args[3]
                                /\ r.category = last'.args[4]
                           ELSE r = q
             /\ (~ \E q \in posts : q.post_id = last'.args[1]) => posts' = posts ) ]_vars

(* C21 witness: of two stored posts, the one with an image has been        *)
(* updated a second after it was created, with a comment stored.           *)
C21_Witness ==
    /\ last.op = "update_post"
    /\ last.outcome = "ok"
    /\ Cardinality(posts) = 2
    /\ comments # {}
    /\ \E q \in posts :
           /\ q.post_id = last.args[1]
           /\ q.image_path # None
           /\ q.title = "Yo"
           /\ q.updated_at > q.created_at
    /\ \E q \in posts : q.post_id # last.args[1] /\ q.title = "Hi"

(* C22: a step of delete_post(p) keeps every post other than p, adds no    *)
(* post, and leaves users and the files of post_images, the copy made for  *)
(* p included, as they were.                                               *)
C22_DeleteFrame ==
    [][ last'.op = "delete_post"
        => ( /\ UNCHANGED <<users, dirExists, imageFiles>>
             /\ posts' \subseteq posts
             /\ \A q \in posts : q.post_id # last'.args[1] => q \in posts' ) ]_vars

(* C22 witness: the first of two posts of one owner, created with an       *)
(* image, has been deleted; the second post and the file are there.        *)
C22_Witness ==
    /\ last.op = "delete_post"
    /\ last.outcome = "ok"
    /\ last.args[1] = 1
    /\ ~ \E q \in posts : q.post_id = 1
    /\ \E q \in posts : q.post_id = 2 /\ q.user_id = 1 /\ q.image_path # None
    /\ \E u \in users : u.user_id = 1
    /\ imageFiles # {}

(* C23: right after a successful create_post from an existing source file, *)
(* every other post that holds an image has the same image_path as the new *)
(* post, and post_images holds one file of that name, with the bytes of    *)
(* the source just given.                                                  *)
C23_SameNameOverwrites ==
    (last.op = "create_post" /\ last.outcome = "ok"
        /\ \E sf \in SourceFiles : sf.path = last.args[5])
        => \E new \in posts :
               /\ new.post_id = last.value
               /\ new.image_path # None
               /\ \A q \in posts : q.image_path # None => q.image_path = new.image_path
               /\ \E f \in imageFiles : StoredPath(f.name) = new.image_path
               /\ \A f \in imageFiles, sf \in SourceFiles :
                      (StoredPath(f.name) = new.image_path /\ sf.path = last.args[5])
                          => f.bytes = sf.bytes

(* C23 witness: the first owner's post was made from /b/pic.png, the       *)
(* second owner's post has just been made from /a/pic.png, both name       *)
(* post_images/pic.png, and that file has the bytes of /a/pic.png.         *)
C23_Witness ==
    /\ last.op = "create_post"
    /\ last.outcome = "ok"
    /\ last.args[5] = "/a/pic.png"
    /\ \E p, q \in posts :
           /\ p.user_id = 1 /\ q.user_id = 2 /\ q.post_id = last.value
           /\ p.image_path = "post_images/pic.png"
           /\ q.image_path = "post_images/pic.png"
    /\ imageFiles = { [name |-> "pic.png", bytes |-> "bytesA"] }

(* C24: whenever MyPostsPage is raised and somebody is logged in, the page *)
(* has a widget, with its Delete button, for exactly the stored posts of   *)
(* that user.                                                              *)
C24_MyPostsShowsOwnPosts ==
    (active_frame = "MyPostsPage" /\ current_user # NoUser)
        => myposts.buttons = { p.post_id : p \in { q \in posts : q.user_id = current_user[1] } }

(* C25: whenever LoginPage or SignupPage is the raised frame, nobody is    *)
(* logged in.                                                              *)
C25_LoginPagesMeanNoUser ==
    active_frame \in {"LoginPage", "SignupPage"} => current_user = NoUser

(* C26: whenever LoginPage is raised, for every stored user and every      *)
(* username and password typed at sign-up that gave this user's row, the   *)
(* Login button pressed on that username and password can log the user in. *)
C26_SignupThenLogin ==
    active_frame = "LoginPage"
        => \A e \in RoundTripEntries :
               (\E u \in users : /\ u.username = Strip(e[3])
                                  /\ u.password = hash_password(e[4]))
                   => ENABLED ( /\ LoginPage_login(e[3], e[4], "none", "none")
                                /\ current_user' # NoUser )

(* C27: a double click on a post row of the tree that ends without an      *)
(* exception leaves PostDetailPage raised with the post_id of the post the *)
(* row was built from.                                                     *)
C27_DoubleClickOpensRowPost ==
    [][ ( /\ active_frame = "PostsTreeviewPage"
          /\ event'.handler = "PostsTreeviewPage.on_treeview_double_click"
          /\ ~ event'.raised
          /\ Len(tree'.selection) = 2 )
        => ( /\ active_frame' = "PostDetailPage"
             /\ detail'.post_id =
                    tree.items[tree'.selection[1]].children[tree'.selection[2]].post_id )
      ]_vars

(* C29: after Expand All every item of the tree that has post rows is      *)
(* open, and after Collapse All every such item is closed.                 *)
C29_ExpandCollapseAll ==
    [][ /\ event'.handler = "PostsTreeviewPage.expand_all"
            => \A i \in DOMAIN tree'.items :
                   Len(tree'.items[i].children) > 0 => tree'.items[i].open
        /\ event'.handler = "PostsTreeviewPage.collapse_all"
            => \A i \in DOMAIN tree'.items :
                   Len(tree'.items[i].children) > 0 => ~ tree'.items[i].open ]_vars

(* C28: the text of every post a step adds was typed, and its image was    *)
(* chosen, while the owner of the post was logged in or while nobody was:  *)
(* never while somebody else was.                                          *)
C28_NoLeakBetweenSessions ==
    [][ \A p \in posts' \ posts :
            /\ compose.text_by \in {NoUser, current_user}
            /\ p.image_path # None => compose.image_by \in {NoUser, current_user} ]_vars

(* C30: when the store itself does not fail, no method returns with the    *)
(* connection it opened still open.                                        *)
C30_ConnectionsClosed ==
    last.fault = "none" => last.connection # "open"

====
